---- MODULE Spec2Model ----
(***************************************************************************)
(* A model of the Tetris engine of src/tetris.js: the shape catalog, the   *)
(* GamePiece, the GameBoard (collision test, bake, line detection and      *)
(* collapse, resize), the score/difficulty model and the Game state        *)
(* machine with its interval timer.                                        *)
(*                                                                         *)
(* Encoding of JavaScript values:                                          *)
(*   - an array a is the sequence <<a[0], a[1], ...>>: JS index k is TLA+  *)
(*     index k+1;                                                          *)
(*   - a board or shape cell is an integer: 0 is the number 0 the code     *)
(*     stores in an empty cell, GameBlock(c) = c+1 is a GameBlock of       *)
(*     colour c, Undefined = -1 is the value of a hole or of a read past   *)
(*     the end of an array; "x instanceof GameBlock" is x >= 1;            *)
(*   - null is NullPiece for a piece and 0 for the ticker.                 *)
(***************************************************************************)
EXTENDS Integers, Sequences, FiniteSets, TLC

VARIABLES
    gameBoard,    \* Game.gameBoard: the GameBoard [width, height, gameBoard, isReady]
    boardWidth,   \* Game.boardWidth (in blocks)
    boardHeight,  \* Game.boardHeight (in blocks)
    gamePiece,    \* Game.gamePiece (NullPiece when null)
    nextPiece,    \* Game.nextPiece
    gameStats,    \* Game.gameStats: [score]
    difficulty,   \* Game.difficulty
    isRunning,    \* Game.isRunning
    isPaused,     \* Game.isPaused
    isGameOver,   \* Game.isGameOver
    ticker,       \* Game.ticker: 0 (null) or the id of an interval
    timers,       \* the intervals armed in the browser: a set of [id, interval]
    last,         \* what the last step did (observation only)
    hist          \* what a specification remembers of its start (observation only)

vars == <<gameBoard, boardWidth, boardHeight, gamePiece, nextPiece, gameStats,
          difficulty, isRunning, isPaused, isGameOver, ticker, timers, last, hist>>

(***************************************************************************)
(* Bounds of the model.                                                    *)
(***************************************************************************)
\* bits of a shape mask (the masks are 16-bit values)
MaskBits == 16

(***************************************************************************)
(* Shape catalog (Game.shapes, Game.hexValues).                            *)
(***************************************************************************)
\* the keys of Game.shapes, in the order getRandomPiece enumerates them
ShapeKeys == <<"i", "j", "l", "o", "s", "t", "z">>

Kinds == {ShapeKeys[n] : n \in 1..Len(ShapeKeys)}

\* Game.shapes: size, blocks (one mask per rotation, decimal), colour
shapes ==
    [i |-> [size |-> 4, blocks |-> <<3840, 8738, 240, 17476>>,     color |-> 0],
     j |-> [size |-> 4, blocks |-> <<17600, 36352, 25664, 3616>>,  color |-> 1],
     l |-> [size |-> 3, blocks |-> <<17504, 3712, 50240, 11776>>,  color |-> 2],
     o |-> [size |-> 2, blocks |-> <<52224, 52224, 52224, 52224>>, color |-> 3],
     s |-> [size |-> 3, blocks |-> <<1728, 35904, 27648, 17952>>,  color |-> 4],
     t |-> [size |-> 3, blocks |-> <<3648, 19520, 19968, 17984>>,  color |-> 5],
     z |-> [size |-> 3, blocks |-> <<3168, 19584, 50688, 9792>>,   color |-> 6]]

\* Game.hexValues[i][j]: the bit of mask cell (i,j), i the column, j the row
hexValues ==
    <<<<32768, 2048, 128, 8>>,
      <<16384, 1024, 64, 4>>,
      <<8192, 512, 32, 2>>,
      <<4096, 256, 16, 1>>>>

\* JavaScript's a & b on non-negative integers below 2^n
RECURSIVE BitAnd(_, _, _)
BitAnd(a, b, n) ==
    IF n = 0 THEN 0
    ELSE (IF a % 2 = 1 /\ b % 2 = 1 THEN 1 ELSE 0)
         + 2 * BitAnd(a \div 2, b \div 2, n - 1)

\* Game.indexContainsBlock(i, j, shape)
indexContainsBlock(i, j, shape) ==
    BitAnd(hexValues[i + 1][j + 1], shape, MaskBits) # 0

(***************************************************************************)
(* Cells.                                                                  *)
(***************************************************************************)
Undefined == -1

\* new GameBlock(color)
GameBlock(color) == color + 1

\* x instanceof GameBlock
IsGameBlock(x) == x >= 1

(***************************************************************************)
(* GamePiece.                                                              *)
(***************************************************************************)
\* the value of a piece variable that holds null
NullPiece ==
    [shape |-> "null", rotation |-> 0, shapeArray |-> <<>>, height |-> 0,
     width |-> 0, position |-> [x |-> 0, y |-> 0]]

\* new GamePiece(game, shape)
GamePiece(shape) ==
    [shape |-> shape, rotation |-> 0, shapeArray |-> <<>>, height |-> 4,
     width |-> 4, position |-> [x |-> 0, y |-> 0]]

\* the array GamePiece.computeShape builds from a mask, for a colour
ShapeArrayOf(mask, color, h, w) ==
    [i \in 1..h |->
        [j \in 1..w |->
            IF indexContainsBlock(i - 1, j - 1, mask) THEN GameBlock(color) ELSE 0]]

\* ShapeArrayOf for every shape and rotation of the catalog, computed once
\* (a piece has height 4 and width 4)
ShapeArrays ==
    [kind \in Kinds |->
        [r \in 1..4 |-> ShapeArrayOf(shapes[kind].blocks[r], shapes[kind].color, 4, 4)]]

\* GamePiece.computeShape()
computeShape(p) ==
    [p EXCEPT !.shapeArray = ShapeArrays[p.shape][p.rotation + 1]]

\* rotate with the wrap-around one step early
rotateWrappingEarly(p) ==
    [p EXCEPT !.rotation = IF p.rotation <= 1 THEN p.rotation + 1 ELSE 0,
              !.shapeArray = <<>>]

\* GamePiece.rotate()
rotate(p) ==
    [p EXCEPT !.rotation = IF p.rotation <= 2 THEN p.rotation + 1 ELSE 0,
              !.shapeArray = <<>>]

\* move that shifts the piece by two columns to the left or the right
moveTwoColumns(p, direction) ==
    CASE direction = "right" -> [p EXCEPT !.position.x = p.position.x + 2]
      [] direction = "left"  -> [p EXCEPT !.position.x = p.position.x - 2]
      [] direction = "down"  -> [p EXCEPT !.position.y = p.position.y + 1]
      [] OTHER -> p

\* GamePiece.move(direction)
move(p, direction) ==
    CASE direction = "right" -> [p EXCEPT !.position.x = p.position.x + 1]
      [] direction = "left"  -> [p EXCEPT !.position.x = p.position.x - 1]
      [] direction = "down"  -> [p EXCEPT !.position.y = p.position.y + 1]
      [] OTHER -> p

\* GamePiece.draw() that never computes the shape
drawPieceAsItIs(p) == p

\* GamePiece.draw(): the lazy computeShape of a piece that is drawn
drawPiece(p) ==
    IF p.shape # "null" /\ Len(p.shapeArray) = 0 THEN computeShape(p) ELSE p

(***************************************************************************)
(* JavaScript values and arrays.                                           *)
(***************************************************************************)
\* a local variable: F of the value x, which is computed once
With(x, F(_)) == F(x)

\* a[k], Undefined past the end of the array
ArrayGet(a, k) == IF k >= 0 /\ k < Len(a) THEN a[k + 1] ELSE Undefined

\* a[k] = v: an assignment past the end lengthens the array and leaves holes
ArraySet(a, k, v) ==
    [n \in 1..(IF k + 1 > Len(a) THEN k + 1 ELSE Len(a)) |->
        IF n = k + 1 THEN v ELSE IF n <= Len(a) THEN a[n] ELSE Undefined]

\* a slice that keeps the last elements of the array in place of the first
ArraySliceFromEnd(a, end) ==
    [n \in 1..(IF end > Len(a) THEN Len(a) ELSE end) |->
        a[n + Len(a) - (IF end > Len(a) THEN Len(a) ELSE end)]]

\* a.slice(0, end), a negative end counting from the end of the array
ArraySlice(a, end) ==
    LET e == IF end < 0 THEN (IF Len(a) + end < 0 THEN 0 ELSE Len(a) + end)
             ELSE (IF end > Len(a) THEN Len(a) ELSE end)
    IN  [n \in 1..e |-> a[n]]

(***************************************************************************)
(* GameBoard.                                                              *)
(***************************************************************************)
\* new GameBoard(game, width, height): a width x height array of zeros
NewGameBoard(w, h) ==
    [width |-> w, height |-> h, isReady |-> FALSE,
     gameBoard |-> [i \in 1..w |-> [j \in 1..h |-> 0]]]

\* this.gameBoard[x][y] of a column that exists
BoardCell(b, x, y) == ArrayGet(b.gameBoard[x + 1], y)

\* isOnBoard with y compared to the height by <=
isOnBoardOffByOne(b, x, y) ==
    /\ x >= 0
    /\ y >= 0
    /\ x < Len(b.gameBoard)
    /\ y <= Len(b.gameBoard[1])

\* GameBoard.isOnBoard(x, y)
isOnBoard(b, x, y) ==
    /\ x >= 0
    /\ y >= 0
    /\ x < Len(b.gameBoard)
    /\ y < Len(b.gameBoard[1])

\* GameBoard.isOccupied(x, y)
isOccupied(b, x, y) ==
    IF ~isOnBoard(b, x, y) THEN TRUE ELSE IsGameBlock(BoardCell(b, x, y))

\* a clone whose position is the piece's own position object
ClonePieceSharingPosition(piece) ==
    [gamePiece |-> piece,
     tmpPiece |-> [piece EXCEPT !.shapeArray = <<>>],
     sharedPosition |-> TRUE]

\* isValidMove, the clone: tmpPiece is a new GamePiece that takes the fields of
\* gamePiece; its position is a new object, so sharedPosition (tmpPiece.position
\* and piece.position being one object) is FALSE
ClonePiece(piece) ==
    [gamePiece |-> piece,
     tmpPiece |-> [shape |-> piece.shape,
                   rotation |-> piece.rotation,
                   shapeArray |-> <<>>,
                   height |-> piece.height,
                   width |-> piece.width,
                   position |-> [x |-> piece.position.x,
                                 y |-> piece.position.y]],
     sharedPosition |-> FALSE]

\* isValidMove, the switch on direction and computeShape, applied to the clone;
\* a write to a shared position object shows in gamePiece as well
SimulateMove(piece, direction) ==
    With(ClonePiece(piece), LAMBDA c :
    With(IF direction = "rotate" THEN rotate(c.tmpPiece)
         ELSE move(c.tmpPiece, direction), LAMBDA t :
        [gamePiece |-> IF c.sharedPosition
                       THEN [c.gamePiece EXCEPT !.position = t.position]
                       ELSE c.gamePiece,
         tmpPiece |-> computeShape(t)]))

\* the collision loop started at i = 1
NoCollisionFromColumnOne(b, tmpPiece) ==
    \A i \in 1..(tmpPiece.height - 1) : \A j \in 0..(tmpPiece.width - 1) :
        IsGameBlock(tmpPiece.shapeArray[i + 1][j + 1]) =>
            ~(\/ ~isOnBoard(b, tmpPiece.position.x + i, tmpPiece.position.y + j)
              \/ isOccupied(b, tmpPiece.position.x + i, tmpPiece.position.y + j))

\* isValidMove, the collision loop over the clone's shapeArray
NoCollision(b, tmpPiece) ==
    \A i \in 0..(tmpPiece.height - 1) : \A j \in 0..(tmpPiece.width - 1) :
        IsGameBlock(tmpPiece.shapeArray[i + 1][j + 1]) =>
            ~(\/ ~isOnBoard(b, tmpPiece.position.x + i, tmpPiece.position.y + j)
              \/ isOccupied(b, tmpPiece.position.x + i, tmpPiece.position.y + j))

\* GameBoard.isValidMove(gamePiece, direction): its result, and the piece and
\* the board as the call leaves them
isValidMove(b, piece, direction) ==
    With(SimulateMove(piece, direction), LAMBDA s :
        [result |-> NoCollision(b, s.tmpPiece),
         gamePiece |-> s.gamePiece,
         gameBoard |-> b])

\* GameBoard.checkLines(gamePiece) reads this.gameBoard[i][j] of a column that
\* does not exist (a TypeError): a scanned row is full over the columns that
\* exist and this.width counts more columns than the array holds
CheckLinesThrows(b, piece) ==
    /\ b.width > Len(b.gameBoard)
    /\ \E j \in piece.position.y..(piece.position.y + piece.height - 1) :
          \A i \in 0..(Len(b.gameBoard) - 1) : IsGameBlock(BoardCell(b, i, j))

\* GameBoard.checkLines(gamePiece): the rows of the piece, in ascending order,
\* in which every one of this.width columns holds a GameBlock
checkLines(b, piece) ==
    SelectSeq([n \in 1..piece.height |-> piece.position.y + n - 1],
              LAMBDA j : \A i \in 0..(b.width - 1) : IsGameBlock(BoardCell(b, i, j)))

\* clearLines, the sweep of one column for one completed row: for j from rowNum
\* down to 0, cell j takes cell j-1, and cell 0 becomes 0
RECURSIVE SweepColumn(_, _)
SweepColumn(col, j) ==
    IF j < 0 THEN col
    ELSE SweepColumn(ArraySet(col, j, IF j > 0 THEN ArrayGet(col, j - 1) ELSE 0),
                     j - 1)

\* clearLines, the sweep of one completed row over the this.width columns
SweepRow(b, rowNum) ==
    [b EXCEPT !.gameBoard =
        [n \in 1..Len(b.gameBoard) |->
            IF n <= b.width THEN SweepColumn(b.gameBoard[n], rowNum)
            ELSE b.gameBoard[n]]]

\* clearLines, the loop over the sorted lines
RECURSIVE SweepRows(_, _)
SweepRows(b, sortedLines) ==
    IF Len(sortedLines) = 0 THEN b
    ELSE SweepRows(SweepRow(b, Head(sortedLines)), Tail(sortedLines))

\* the lines sorted in descending order
SortLinesDescending(completedLines) == SortSeq(completedLines, LAMBDA a, c : a > c)

\* completedLines.slice().sort(function (a, b) { return a - b })
SortLines(completedLines) == SortSeq(completedLines, LAMBDA a, c : a < c)

\* clearLines, the collapse of the board (the score tally is addScore)
CollapseLines(b, completedLines) == SweepRows(b, SortLines(completedLines))

\* bakePiece, the copy of column i of the piece onto the board, cell by cell
RECURSIVE BakeColumn(_, _, _, _, _)
BakeColumn(col, b, piece, i, j) ==
    IF j >= piece.width THEN col
    ELSE BakeColumn(
            IF /\ isOnBoard(b, piece.position.x + i, piece.position.y + j)
               /\ IsGameBlock(piece.shapeArray[i + 1][j + 1])
            THEN ArraySet(col, piece.position.y + j, piece.shapeArray[i + 1][j + 1])
            ELSE col,
            b, piece, i, j + 1)

\* bakePiece, the copy of the piece onto the board
BakeCells(b, piece) ==
    [b EXCEPT !.gameBoard =
        [n \in 1..Len(b.gameBoard) |->
            IF n - 1 - piece.position.x \in 0..(piece.height - 1)
            THEN BakeColumn(b.gameBoard[n], b, piece, n - 1 - piece.position.x, 0)
            ELSE b.gameBoard[n]]]

\* bakePiece reads rawPiece.shapeArray[i][j] of a cleared shapeArray (a
\* TypeError): some cell of the piece's 4x4 box is on the board
BakeThrows(b, piece) ==
    /\ Len(piece.shapeArray) = 0
    /\ \E i \in 0..(piece.height - 1) : \E j \in 0..(piece.width - 1) :
          isOnBoard(b, piece.position.x + i, piece.position.y + j)

(***************************************************************************)
(* GameBoard.resize.                                                       *)
(***************************************************************************)
Max(a, c) == IF a > c THEN a ELSE c

\* resize, the inner loop over j for column i, from j on; b keeps the old
\* width and height; error is a TypeError (a column that does not exist)
RECURSIVE ResizeColumn(_, _, _, _)
ResizeColumn(b, i, j, newHeight) ==
    IF j >= Max(b.height, newHeight) THEN [board |-> b, error |-> FALSE]
    ELSE IF j >= newHeight THEN
        IF i >= Len(b.gameBoard) THEN [board |-> b, error |-> TRUE]
        ELSE [board |-> [b EXCEPT !.gameBoard[i + 1] = ArraySlice(@, newHeight)],
              error |-> FALSE]
    ELSE IF i >= b.width THEN
        ResizeColumn([b EXCEPT !.gameBoard =
                          ArraySet(b.gameBoard, i, ArraySet(<<>>, j, 0))],
                     i, j + 1, newHeight)
    ELSE IF j >= b.height THEN
        IF i >= Len(b.gameBoard) THEN [board |-> b, error |-> TRUE]
        ELSE ResizeColumn([b EXCEPT !.gameBoard[i + 1] = ArraySet(@, j, 0)],
                          i, j + 1, newHeight)
    ELSE ResizeColumn(b, i, j + 1, newHeight)

\* resize, the outer loop over i, from i on
RECURSIVE ResizeColumns(_, _, _, _)
ResizeColumns(b, i, newWidth, newHeight) ==
    IF i >= Max(b.width, newWidth) THEN [board |-> b, error |-> FALSE]
    ELSE IF i >= newWidth THEN
        [board |-> [b EXCEPT !.gameBoard = ArraySlice(@, newWidth)], error |-> FALSE]
    ELSE With(ResizeColumn(b, i, 0, newHeight), LAMBDA r :
            IF r.error THEN r
            ELSE ResizeColumns(r.board, i + 1, newWidth, newHeight))

\* GameBoard.draw() reads this.gameBoard[i][j] of a column that does not exist
BoardDrawThrows(b) ==
    ~b.isReady /\ b.width > Len(b.gameBoard) /\ b.height > 0

\* GameBoard.draw(): the cache is rebuilt and validated
drawBoard(b) == [b EXCEPT !.isReady = TRUE]

\* GameBoard.resize(newWidth, newHeight), with canvasCache.resize and draw
resizeBoard(b, newWidth, newHeight) ==
    With(ResizeColumns(b, 0, newWidth, newHeight), LAMBDA r :
    With([r.board EXCEPT !.width = newWidth, !.height = newHeight,
                         !.isReady = FALSE], LAMBDA b1 :
        IF r.error THEN r
        ELSE IF BoardDrawThrows(b1) THEN [board |-> b1, error |-> TRUE]
        ELSE [board |-> drawBoard(b1), error |-> FALSE]))

(***************************************************************************)
(* Game: configuration.                                                    *)
(***************************************************************************)
\* GameBlock.size
blockSize == 20

\* Game.sideBarSize
sideBarSize == blockSize * 6

difficultyTimeouts == <<1000, 750, 625, 500, 425, 300, 250, 225, 200, 175>>

pointsAwardedForLines == <<40, 100, 300, 1200>>

scorePerLevel ==
    <<1200, 1200 * 4, 1200 * 8, 1200 * 16, 1200 * 32, 1200 * 64, 1200 * 128,
      1200 * 256, 1200 * 512>>

\* the highest difficulty addScore raises to
MaxDifficulty == 9

\* Math.floor(px / this.blockSize) - Math.floor(this.sideBarSize / this.blockSize)
BoardWidthOf(px) == (px \div blockSize) - (sideBarSize \div blockSize)

\* Math.floor(px / this.blockSize)
BoardHeightOf(px) == px \div blockSize

\* Math.ceil(n / 2)
CeilHalf(n) == (n + 1) \div 2

(***************************************************************************)
(* Game: the operations, on a record g of the Game's fields, the armed     *)
(* intervals (timers), the values Math.random is still to give (rnd), the  *)
(* TypeError flag (error) and what the handler did so far (obs).           *)
(***************************************************************************)
NoObs ==
    [spawns |-> 0, spawnFails |-> 0, bakes |-> 0, lines |-> <<>>, awards |-> 0,
     arms |-> 0, resets |-> 0, valid |-> FALSE, spawned |-> <<>>,
     overlaps |-> 0]

\* clearInterval(id)
clearInterval(g, id) == [g EXCEPT !.timers = {t \in @ : t.id # id}]

\* the id setInterval returns: one no armed interval has
NewTimerId(g) ==
    CHOOSE n \in 1..(Cardinality(g.timers) + 1) : \A t \in g.timers : t.id # n

\* this.ticker = setInterval(this.gameTick, this.difficultyTimeouts[this.difficulty])
armTicker(g) ==
    [g EXCEPT !.timers = @ \cup {[id |-> NewTimerId(g),
                                  interval |-> difficultyTimeouts[g.difficulty + 1]]},
              !.ticker = NewTimerId(g),
              !.obs.arms = @ + 1,
              !.obs.overlaps = IF g.timers # {} THEN @ + 1 ELSE @]

\* Game.resetTimer()
resetTimer(g) == armTicker(clearInterval(g, g.ticker))

\* addScore with the threshold compared by >=
addScoreAtThreshold(g, val) ==
    With([g EXCEPT !.gameStats.score = @ + val, !.obs.awards = @ + 1], LAMBDA g1 :
        IF /\ g1.difficulty < Len(scorePerLevel)
           /\ g1.gameStats.score >= scorePerLevel[g1.difficulty + 1]
           /\ g1.difficulty < MaxDifficulty
        THEN resetTimer([g1 EXCEPT !.difficulty = @ + 1])
        ELSE g1)

\* addScore that goes on raising the difficulty past MaxDifficulty, comparing
\* the score with the last threshold there is
addScoreUncapped(g, val) ==
    With([g EXCEPT !.gameStats.score = @ + val, !.obs.awards = @ + 1], LAMBDA g1 :
        IF g1.gameStats.score >
              scorePerLevel[IF g1.difficulty < Len(scorePerLevel)
                            THEN g1.difficulty + 1 ELSE Len(scorePerLevel)]
        THEN IF g1.difficulty < MaxDifficulty
             THEN resetTimer([g1 EXCEPT !.difficulty = @ + 1])
             ELSE [g1 EXCEPT !.difficulty = @ + 1]
        ELSE g1)

\* addScore that raises the difficulty and leaves the interval as it is
addScoreKeepingTimer(g, val) ==
    With([g EXCEPT !.gameStats.score = @ + val, !.obs.awards = @ + 1], LAMBDA g1 :
        IF /\ g1.difficulty < Len(scorePerLevel)
           /\ g1.gameStats.score > scorePerLevel[g1.difficulty + 1]
           /\ g1.difficulty < MaxDifficulty
        THEN [g1 EXCEPT !.difficulty = @ + 1]
        ELSE g1)

\* addScore that raises the difficulty at every award
addScoreAtEveryAward(g, val) ==
    With([g EXCEPT !.gameStats.score = @ + val, !.obs.awards = @ + 1], LAMBDA g1 :
        IF g1.difficulty < MaxDifficulty
        THEN resetTimer([g1 EXCEPT !.difficulty = @ + 1])
        ELSE g1)

\* GameStats.addScore(val)
addScore(g, val) ==
    With([g EXCEPT !.gameStats.score = @ + val, !.obs.awards = @ + 1], LAMBDA g1 :
        IF /\ g1.difficulty < Len(scorePerLevel)
           /\ g1.gameStats.score > scorePerLevel[g1.difficulty + 1]
           /\ g1.difficulty < MaxDifficulty
        THEN resetTimer([g1 EXCEPT !.difficulty = @ + 1])
        ELSE g1)

\* Game.getRandomPiece(): keys[Math.floor(Math.random() * keys.length)]
getRandomPiece(g) == GamePiece(ShapeKeys[Head(g.rnd) + 1])

\* clearLines whose award does not grow with the difficulty
clearLinesFlatAward(g, completedLines) ==
    IF Len(completedLines) > 0
    THEN With(addScore(g, pointsAwardedForLines[Len(SortLines(completedLines))]),
              LAMBDA g1 :
            [g1 EXCEPT !.gameBoard = CollapseLines(g1.gameBoard, completedLines)])
    ELSE g

\* GameBoard.clearLines(completedLines)
clearLines(g, completedLines) ==
    IF Len(completedLines) > 0
    THEN With(addScore(g, pointsAwardedForLines[Len(SortLines(completedLines))]
                          * (g.difficulty + 1)), LAMBDA g1 :
            [g1 EXCEPT !.gameBoard = CollapseLines(g1.gameBoard, completedLines)])
    ELSE g

RECURSIVE selectNextPiece(_)
RECURSIVE togglePause(_)
RECURSIVE reset(_)
RECURSIVE start(_)

\* obs of a spawn: whether its validation failed, and isGameOver as
\* selectNextPiece has it once the validation is handled
Spawned(g, failed) ==
    [g EXCEPT !.obs.spawned = Append(@, [failed |-> failed, gameOver |-> g.isGameOver])]

\* selectNextPiece that pauses on a failed validation and leaves isGameOver
selectNextPieceKeepsPlaying(g) ==
    With([g EXCEPT
            !.gamePiece =
               [g.nextPiece EXCEPT !.position =
                   [x |-> CeilHalf(g.gameBoard.width - shapes[g.nextPiece.shape].size),
                    y |-> 0]],
            !.nextPiece = getRandomPiece(g),
            !.rnd = Tail(g.rnd),
            !.obs.spawns = @ + 1], LAMBDA g1 :
    With(isValidMove(g1.gameBoard, g1.gamePiece, "down"), LAMBDA v :
    With([g1 EXCEPT !.gamePiece = v.gamePiece, !.gameBoard = v.gameBoard], LAMBDA g2 :
        IF v.result THEN Spawned(g2, FALSE)
        ELSE togglePause(Spawned([g2 EXCEPT !.obs.spawnFails = @ + 1], TRUE)))))

\* selectNextPiece that rounds the spawn column down
selectNextPieceRoundingDown(g) ==
    With([g EXCEPT
            !.gamePiece =
               [g.nextPiece EXCEPT !.position =
                   [x |-> (g.gameBoard.width - shapes[g.nextPiece.shape].size) \div 2,
                    y |-> 0]],
            !.nextPiece = getRandomPiece(g),
            !.rnd = Tail(g.rnd),
            !.obs.spawns = @ + 1], LAMBDA g1 :
    With(isValidMove(g1.gameBoard, g1.gamePiece, "down"), LAMBDA v :
    With([g1 EXCEPT !.gamePiece = v.gamePiece, !.gameBoard = v.gameBoard], LAMBDA g2 :
        IF v.result THEN Spawned(g2, FALSE)
        ELSE togglePause(Spawned([g2 EXCEPT !.isGameOver = TRUE,
                                            !.obs.spawnFails = @ + 1], TRUE)))))

\* Game.selectNextPiece()
selectNextPiece(g) ==
    With([g EXCEPT
            !.gamePiece =
               [g.nextPiece EXCEPT !.position =
                   [x |-> CeilHalf(g.gameBoard.width - shapes[g.nextPiece.shape].size),
                    y |-> 0]],
            !.nextPiece = getRandomPiece(g),
            !.rnd = Tail(g.rnd),
            !.obs.spawns = @ + 1], LAMBDA g1 :
    With(isValidMove(g1.gameBoard, g1.gamePiece, "down"), LAMBDA v :
    With([g1 EXCEPT !.gamePiece = v.gamePiece, !.gameBoard = v.gameBoard], LAMBDA g2 :
        IF v.result THEN Spawned(g2, FALSE)
        ELSE togglePause(Spawned([g2 EXCEPT !.isGameOver = TRUE,
                                            !.obs.spawnFails = @ + 1], TRUE)))))

\* Game.start()
start(g) ==
    IF ~g.isRunning
    THEN With(selectNextPiece(g), LAMBDA g1 :
            [armTicker(IF g1.ticker # 0 THEN clearInterval(g1, g1.ticker) ELSE g1)
                EXCEPT !.isRunning = TRUE])
    ELSE g

\* togglePause that forgets the ticker of a paused game without clearing it
togglePauseKeepingTimer(g) ==
    IF ~g.isPaused
    THEN [g EXCEPT !.ticker = 0, !.isPaused = TRUE]
    ELSE IF g.isGameOver THEN reset(g)
    ELSE [armTicker(g) EXCEPT !.isPaused = FALSE]

\* Game.togglePause()
togglePause(g) ==
    IF ~g.isPaused
    THEN [clearInterval(g, g.ticker) EXCEPT !.ticker = 0, !.isPaused = TRUE]
    ELSE IF g.isGameOver THEN reset(g)
    ELSE [armTicker(g) EXCEPT !.isPaused = FALSE]

\* reset that keeps the GameStats
resetKeepingScore(g) ==
    start([clearInterval(g, g.ticker) EXCEPT
              !.ticker = 0,
              !.difficulty = 0,
              !.isGameOver = FALSE,
              !.isRunning = FALSE,
              !.isPaused = FALSE,
              !.gameBoard = NewGameBoard(g.boardWidth, g.boardHeight),
              !.gamePiece = NullPiece,
              !.nextPiece = getRandomPiece(g),
              !.rnd = Tail(g.rnd),
              !.obs.resets = @ + 1])

\* reset that keeps the GameBoard
resetKeepingBoard(g) ==
    start([clearInterval(g, g.ticker) EXCEPT
              !.ticker = 0,
              !.difficulty = 0,
              !.isGameOver = FALSE,
              !.isRunning = FALSE,
              !.isPaused = FALSE,
              !.gameStats = [score |-> 0],
              !.gamePiece = NullPiece,
              !.nextPiece = getRandomPiece(g),
              !.rnd = Tail(g.rnd),
              !.obs.resets = @ + 1])

\* Game.reset()
reset(g) ==
    start([clearInterval(g, g.ticker) EXCEPT
              !.ticker = 0,
              !.difficulty = 0,
              !.isGameOver = FALSE,
              !.isRunning = FALSE,
              !.isPaused = FALSE,
              !.gameBoard = NewGameBoard(g.boardWidth, g.boardHeight),
              !.gameStats = [score |-> 0],
              !.gamePiece = NullPiece,
              !.nextPiece = getRandomPiece(g),
              !.rnd = Tail(g.rnd),
              !.obs.resets = @ + 1])

\* GameBoard.bakePiece(gamePiece), called with this.game.gamePiece
bakePiece(g) ==
    IF g.gamePiece.shape = "null" THEN g
    ELSE IF BakeThrows(g.gameBoard, g.gamePiece) THEN [g EXCEPT !.error = TRUE]
    ELSE With([g EXCEPT !.gameBoard = BakeCells(g.gameBoard, g.gamePiece),
                        !.obs.bakes = @ + 1], LAMBDA g1 :
            IF CheckLinesThrows(g1.gameBoard, g.gamePiece)
            THEN [g1 EXCEPT !.error = TRUE]
            ELSE With(checkLines(g1.gameBoard, g.gamePiece), LAMBDA completedLines :
                 With(clearLines([g1 EXCEPT !.obs.lines = completedLines],
                                 completedLines), LAMBDA g2 :
                 With(selectNextPiece(g2), LAMBDA g3 :
                     \* canvasCache.invalidate() and draw() of the board that
                     \* baked the piece, which a reset has replaced
                     IF Len(completedLines) > 0 /\ g3.obs.resets = g2.obs.resets
                     THEN [g3 EXCEPT !.gameBoard = drawBoard(@)]
                     ELSE g3))))

\* Game.draw(): the board is drawn, and each piece drawn computes its shape
draw(g) ==
    IF g.error THEN g
    ELSE IF BoardDrawThrows(g.gameBoard) THEN [g EXCEPT !.error = TRUE]
    ELSE [g EXCEPT !.gameBoard = drawBoard(@),
                   !.gamePiece = drawPiece(@),
                   !.nextPiece = drawPiece(@)]

\* gameTick that moves the piece down whatever isValidMove returns
gameTickUnchecked(g) ==
    draw(IF g.gamePiece.shape # "null"
         THEN With(isValidMove(g.gameBoard, g.gamePiece, "down"), LAMBDA v :
              [g EXCEPT !.gamePiece = move(v.gamePiece, "down"),
                        !.gameBoard = v.gameBoard,
                        !.obs.valid = v.result])
         ELSE g)

\* gameTick that leaves a piece that cannot move down where it is
gameTickWithoutBake(g) ==
    draw(IF g.gamePiece.shape # "null"
         THEN With(isValidMove(g.gameBoard, g.gamePiece, "down"), LAMBDA v :
              With([g EXCEPT !.gamePiece = v.gamePiece,
                             !.gameBoard = v.gameBoard,
                             !.obs.valid = v.result], LAMBDA g1 :
                  IF v.result
                  THEN [g1 EXCEPT !.gamePiece = move(@, "down")]
                  ELSE g1))
         ELSE g)

\* Game.gameTick()
gameTick(g) ==
    draw(IF g.gamePiece.shape # "null"
         THEN With(isValidMove(g.gameBoard, g.gamePiece, "down"), LAMBDA v :
              With([g EXCEPT !.gamePiece = v.gamePiece,
                             !.gameBoard = v.gameBoard,
                             !.obs.valid = v.result], LAMBDA g1 :
                  IF v.result
                  THEN [g1 EXCEPT !.gamePiece = move(@, "down")]
                  ELSE bakePiece(g1)))
         ELSE g)

\* handleInput that moves the piece whatever isValidMove returns
handleMoveUnchecked(g, direction) ==
    IF ~g.isPaused /\ g.gamePiece.shape # "null"
    THEN With(isValidMove(g.gameBoard, g.gamePiece, direction), LAMBDA v :
         With([g EXCEPT !.gamePiece = v.gamePiece,
                        !.gameBoard = v.gameBoard,
                        !.obs.valid = v.result], LAMBDA g1 :
             [g1 EXCEPT !.gamePiece = IF direction = "rotate" THEN rotate(@)
                                       ELSE move(@, direction)]))
    ELSE g

\* Game.handleInput(e), cases 38, 37 and 39: rotate, left, right
handleMove(g, direction) ==
    IF ~g.isPaused /\ g.gamePiece.shape # "null"
    THEN With(isValidMove(g.gameBoard, g.gamePiece, direction), LAMBDA v :
         With([g EXCEPT !.gamePiece = v.gamePiece,
                        !.gameBoard = v.gameBoard,
                        !.obs.valid = v.result], LAMBDA g1 :
             IF v.result
             THEN [g1 EXCEPT !.gamePiece = IF direction = "rotate" THEN rotate(@)
                                           ELSE move(@, direction)]
             ELSE g1))
    ELSE g

\* the down arrow that does not look at isPaused
handleDownWhilePaused(g) ==
    IF g.gamePiece.shape # "null"
    THEN With(isValidMove(g.gameBoard, g.gamePiece, "down"), LAMBDA v :
         With([g EXCEPT !.gamePiece = v.gamePiece,
                        !.gameBoard = v.gameBoard,
                        !.obs.valid = v.result], LAMBDA g1 :
             IF v.result
             THEN [g1 EXCEPT !.gamePiece = move(@, "down")]
             ELSE bakePiece(g1)))
    ELSE bakePiece(g)

\* Game.handleInput(e), case 40: down
handleDown(g) ==
    IF ~g.isPaused
    THEN IF g.gamePiece.shape # "null"
         THEN With(isValidMove(g.gameBoard, g.gamePiece, "down"), LAMBDA v :
              With([g EXCEPT !.gamePiece = v.gamePiece,
                             !.gameBoard = v.gameBoard,
                             !.obs.valid = v.result], LAMBDA g1 :
                  IF v.result
                  THEN [g1 EXCEPT !.gamePiece = move(@, "down")]
                  ELSE bakePiece(g1)))
         ELSE bakePiece(g)
    ELSE g

\* Game.handleInput(e), case 32: the space bar
handleSpace(g) == IF ~g.isRunning THEN start(g) ELSE togglePause(g)

\* Game.handleInput(e)
handleInput(g, keyCode) ==
    draw(CASE keyCode = 38 -> handleMove(g, "rotate")
           [] keyCode = 37 -> handleMove(g, "left")
           [] keyCode = 39 -> handleMove(g, "right")
           [] keyCode = 40 -> handleDown(g)
           [] keyCode = 32 -> handleSpace(g)
           [] OTHER -> g)

\* Game.resize(width, height), in pixels
resizeGame(g, pxWidth, pxHeight) ==
    With(BoardWidthOf(pxWidth), LAMBDA newWidth :
    With(BoardHeightOf(pxHeight), LAMBDA newHeight :
    With(resizeBoard(g.gameBoard, newWidth, newHeight), LAMBDA r :
        IF r.error THEN [g EXCEPT !.gameBoard = r.board, !.error = TRUE]
        ELSE draw([g EXCEPT !.gameBoard = r.board,
                            !.boardWidth = newWidth,
                            !.boardHeight = newHeight]))))

(***************************************************************************)
(* From the variables to the record the operations work on, and back.      *)
(***************************************************************************)
\* the Game as the variables hold it, with the values Math.random will give
Cur(rnd) ==
    [gameBoard |-> gameBoard, boardWidth |-> boardWidth, boardHeight |-> boardHeight,
     gamePiece |-> gamePiece, nextPiece |-> nextPiece, gameStats |-> gameStats,
     difficulty |-> difficulty, isRunning |-> isRunning, isPaused |-> isPaused,
     isGameOver |-> isGameOver, ticker |-> ticker, timers |-> timers,
     rnd |-> rnd, error |-> FALSE, obs |-> NoObs]

\* what `last` records of a step
Observed(op, arg, g) ==
    [op |-> op, arg |-> arg, error |-> g.error, valid |-> g.obs.valid,
     spawns |-> g.obs.spawns, spawnFails |-> g.obs.spawnFails,
     bakes |-> g.obs.bakes, lines |-> Len(g.obs.lines), awards |-> g.obs.awards,
     arms |-> g.obs.arms, resets |-> g.obs.resets,
     spawned |-> g.obs.spawned, overlaps |-> g.obs.overlaps]

\* the step that leaves the Game as g
Commit(op, arg, g) ==
    /\ gameBoard' = g.gameBoard
    /\ boardWidth' = g.boardWidth
    /\ boardHeight' = g.boardHeight
    /\ gamePiece' = g.gamePiece
    /\ nextPiece' = g.nextPiece
    /\ gameStats' = g.gameStats
    /\ difficulty' = g.difficulty
    /\ isRunning' = g.isRunning
    /\ isPaused' = g.isPaused
    /\ isGameOver' = g.isGameOver
    /\ ticker' = g.ticker
    /\ timers' = g.timers
    /\ last' = Observed(op, arg, g)

\* the values Math.floor(Math.random() * keys.length) can take
RandomIndices == 0..(Len(ShapeKeys) - 1)

\* a handler calls getRandomPiece at most three times: bakePiece's
\* selectNextPiece, then reset, then start's selectNextPiece
MaxDraws == 3

\* the Game after new Game(canvasId) and init(), on a canvas of the given size,
\* Math.random giving the shape of index r
NewGame(pxWidth, pxHeight, r) ==
    [gameBoard |-> drawBoard(NewGameBoard(BoardWidthOf(pxWidth), BoardHeightOf(pxHeight))),
     boardWidth |-> BoardWidthOf(pxWidth), boardHeight |-> BoardHeightOf(pxHeight),
     gamePiece |-> NullPiece, nextPiece |-> drawPiece(GamePiece(ShapeKeys[r + 1])),
     gameStats |-> [score |-> 0], difficulty |-> 0, isRunning |-> FALSE,
     isPaused |-> FALSE, isGameOver |-> FALSE, ticker |-> 0, timers |-> {},
     rnd |-> <<>>, error |-> FALSE, obs |-> NoObs]

\* the variables hold the Game g
Holds(g) ==
    /\ gameBoard = g.gameBoard
    /\ boardWidth = g.boardWidth
    /\ boardHeight = g.boardHeight
    /\ gamePiece = g.gamePiece
    /\ nextPiece = g.nextPiece
    /\ gameStats = g.gameStats
    /\ difficulty = g.difficulty
    /\ isRunning = g.isRunning
    /\ isPaused = g.isPaused
    /\ isGameOver = g.isGameOver
    /\ ticker = g.ticker
    /\ timers = g.timers
    /\ last = Observed("init", "", g)

(***************************************************************************)
(* SpecProbe: isValidMove and the rotate, left and right inputs, on every  *)
(* piece kind, rotation and position and on boards of a few blocks.        *)
(***************************************************************************)
\* the canvas of the probed game, in pixels: a board of 4 x 4 blocks
ProbeCanvasWidth == 200
ProbeCanvasHeight == 80

\* the most blocks a probed board holds
MaxProbeBlocks == 1

\* a game that runs at difficulty 0 with its interval armed, on board b with piece p
RunningGame(pxWidth, pxHeight, b, p, r) ==
    [NewGame(pxWidth, pxHeight, r) EXCEPT
        !.gameBoard = b, !.gamePiece = p, !.isRunning = TRUE, !.ticker = 1,
        !.timers = {[id |-> 1, interval |-> difficultyTimeouts[1]]}]

\* the board b with a GameBlock of colour 0 in each cell of B
WithBlocks(b, B) ==
    [b EXCEPT !.gameBoard =
        [i \in 1..Len(b.gameBoard) |->
            [j \in 1..Len(b.gameBoard[i]) |->
                IF <<i - 1, j - 1>> \in B THEN GameBlock(0) ELSE b.gameBoard[i][j]]]]

\* a drawn piece of a kind, at a rotation and a position
PieceAt(kind, rotation, x, y) ==
    computeShape([GamePiece(kind) EXCEPT !.rotation = rotation,
                                         !.position = [x |-> x, y |-> y]])

\* the subsets of S of at most k elements
RECURSIVE SubsetsUpTo(_, _)
SubsetsUpTo(S, k) ==
    IF k = 0 THEN {{}}
    ELSE LET smaller == SubsetsUpTo(S, k - 1)
         IN  smaller \cup {B \cup {c} : B \in smaller, c \in S}

ProbeBoards ==
    LET w == BoardWidthOf(ProbeCanvasWidth)
        h == BoardHeightOf(ProbeCanvasHeight)
    IN  {WithBlocks(drawBoard(NewGameBoard(w, h)), B) :
            B \in SubsetsUpTo((0..(w - 1)) \X (0..(h - 1)), MaxProbeBlocks)}

ProbePieces ==
    {PieceAt(kind, rotation, x, y) :
        kind \in Kinds, rotation \in 0..3,
        x \in (-(4 \div 2))..(BoardWidthOf(ProbeCanvasWidth) - 1),
        y \in 0..(BoardHeightOf(ProbeCanvasHeight) - 1)}

InitProbe ==
    /\ \E b \in ProbeBoards : \E p \in ProbePieces :
          Holds(RunningGame(ProbeCanvasWidth, ProbeCanvasHeight, b, p, 0))
    /\ hist = "probe"

\* a call of gameBoard.isValidMove(gamePiece, direction)
CallIsValidMove ==
    \E direction \in {"rotate", "left", "right", "down"} :
        LET r == isValidMove(gameBoard, gamePiece, direction)
        IN  /\ gamePiece' = r.gamePiece
            /\ gameBoard' = r.gameBoard
            /\ last' = [Observed("isValidMove", direction, Cur(<<>>)) EXCEPT
                           !.valid = r.result]
            /\ UNCHANGED <<boardWidth, boardHeight, nextPiece, gameStats, difficulty,
                           isRunning, isPaused, isGameOver, ticker, timers, hist>>

\* the key codes of handleInput
KeyCode(arg) ==
    CASE arg = "rotate" -> 38
      [] arg = "left" -> 37
      [] arg = "right" -> 39
      [] arg = "down" -> 40
      [] arg = "space" -> 32

\* document.onkeydown with the up, left or right arrow
KeyMove ==
    \E arg \in {"rotate", "left", "right"} :
        /\ Commit("key", arg, handleInput(Cur(<<>>), KeyCode(arg)))
        /\ UNCHANGED hist

NextProbe == CallIsValidMove \/ KeyMove

SpecProbe == InitProbe /\ [][NextProbe]_vars

(***************************************************************************)
(* SpecPiece: rotate and computeShape on every kind and starting rotation. *)
(***************************************************************************)
\* the most rotate() calls of one run
MaxRotations == 8

InitPiece ==
    /\ \E kind \in Kinds : \E rotation \in 0..3 :
          /\ Holds(RunningGame(ProbeCanvasWidth, ProbeCanvasHeight,
                               drawBoard(NewGameBoard(BoardWidthOf(ProbeCanvasWidth),
                                                      BoardHeightOf(ProbeCanvasHeight))),
                               PieceAt(kind, rotation, 0, 0), 0))
          /\ hist = [start |-> PieceAt(kind, rotation, 0, 0), rotations |-> 0]

\* a call of gamePiece.rotate()
CallRotate ==
    /\ hist.rotations < MaxRotations
    /\ gamePiece' = rotate(gamePiece)
    /\ hist' = [hist EXCEPT !.rotations = @ + 1]
    /\ last' = Observed("rotate", "", Cur(<<>>))
    /\ UNCHANGED <<gameBoard, boardWidth, boardHeight, nextPiece, gameStats, difficulty,
                   isRunning, isPaused, isGameOver, ticker, timers>>

\* a call of gamePiece.computeShape()
CallComputeShape ==
    /\ gamePiece' = computeShape(gamePiece)
    /\ last' = Observed("computeShape", "", Cur(<<>>))
    /\ UNCHANGED <<gameBoard, boardWidth, boardHeight, nextPiece, gameStats, difficulty,
                   isRunning, isPaused, isGameOver, ticker, timers, hist>>

NextPiece == CallRotate \/ CallComputeShape

SpecPiece == InitPiece /\ [][NextPiece]_vars

(***************************************************************************)
(* SpecClear: clearLines on boards of two columns and four rows, for every *)
(* set of full rows, given in every order.                                 *)
(***************************************************************************)
\* the canvas of the cleared board, in pixels: 2 x 4 blocks
ClearCanvasWidth == 160
ClearCanvasHeight == 80

\* the colours of the blocks of a cleared board are 0..(ClearColours - 1)
ClearColours == 2

\* the rows of b in which each of the width columns holds a GameBlock
FullRows(b) ==
    {j \in 0..(b.height - 1) :
        \A i \in 0..(b.width - 1) : IsGameBlock(b.gameBoard[i + 1][j + 1])}

ClearBoards ==
    LET w == BoardWidthOf(ClearCanvasWidth)
        h == BoardHeightOf(ClearCanvasHeight)
    IN  {[drawBoard(NewGameBoard(w, h)) EXCEPT !.gameBoard = grid] :
            grid \in [1..w -> [1..h -> 0..ClearColours]]}

\* the sequences that list the elements of S once each
OrdersOf(S) ==
    {f \in [1..Cardinality(S) -> S] : \A m, n \in 1..Cardinality(S) : f[m] = f[n] => m = n}

InitClear ==
    /\ \E b \in ClearBoards :
          /\ Holds(RunningGame(ClearCanvasWidth, ClearCanvasHeight, b,
                               PieceAt("o", 0, 0, 0), 0))
          /\ hist = [board |-> b, lines |-> {}]

\* a call of gameBoard.clearLines(completedLines) with full rows of the board
CallClearLines ==
    \E S \in SUBSET FullRows(gameBoard) :
        /\ Cardinality(S) \in 1..4
        /\ \E completedLines \in OrdersOf(S) :
              Commit("clearLines", "", clearLines(Cur(<<>>), completedLines))
        /\ hist' = [board |-> gameBoard, lines |-> S]

NextClear == CallClearLines

SpecClear == InitClear /\ [][NextClear]_vars

(***************************************************************************)
(* SpecScore: the awards of clearLines, one after the other, from a game   *)
(* that has just started.                                                  *)
(***************************************************************************)
\* no award is modelled once the score is above MaxTalliedScore
MaxTalliedScore == 620000

InitScore ==
    /\ \E r \in RandomIndices :
          Holds([handleInput([NewGame(ProbeCanvasWidth, ProbeCanvasHeight, 0) EXCEPT
                                 !.rnd = <<r>>], KeyCode("space"))
                 EXCEPT !.obs = NoObs, !.rnd = <<>>])
    /\ hist = "score"

\* clearLines' tally for n completed lines:
\* addScore(pointsAwardedForLines[n - 1] * (difficulty + 1))
TallyLines ==
    \E n \in 1..Len(pointsAwardedForLines) :
        /\ gameStats.score <= MaxTalliedScore
        /\ Commit("addScore", "", addScore(Cur(<<>>),
                                          pointsAwardedForLines[n] * (difficulty + 1)))
        /\ UNCHANGED hist

NextScore == TallyLines

SpecScore == InitScore /\ [][NextScore]_vars

(***************************************************************************)
(* Spec: the game, from new Game() and init() on a canvas: the space bar,  *)
(* the arrow keys, the ticks of the armed intervals and resize.            *)
(***************************************************************************)
\* the canvases of the game, in pixels: boards of 4 x 4 and of 4 x 1 blocks
PlayCanvases == {<<200, 80>>, <<200, 20>>}

\* the values Math.random gives in the game: the shapes i and o
PlayIndices == {0, 3}

\* no piece is spawned once MaxSpawns pieces were
MaxSpawns == 4

\* the most calls of resize
MaxResizes == 1

\* the values Math.random gives to a handler that leaves the Game as g when it
\* is given MaxDraws values: it calls Math.random MaxDraws - Len(g.rnd) times
Draws(indices, g) == [1..(MaxDraws - Len(g.rnd)) -> indices]

\* MaxDraws values of Math.random
SomeDraws == [n \in 1..MaxDraws |-> 0]

Init ==
    /\ \E c \in PlayCanvases : \E r \in PlayIndices : Holds(NewGame(c[1], c[2], r))
    /\ hist = [spawns |-> 0, resizes |-> 0]

\* what hist counts of a handler that left the Game as g
Counted(g) == [hist EXCEPT !.spawns = @ + g.obs.spawns]

\* document.onkeydown with the space bar
KeySpace ==
    /\ hist.spawns < MaxSpawns
    /\ \E rnd \in Draws(PlayIndices, handleInput(Cur(SomeDraws), KeyCode("space"))) :
          LET g == handleInput(Cur(rnd), KeyCode("space"))
          IN  Commit("key", "space", g) /\ hist' = Counted(g)

\* document.onkeydown with the up, left or right arrow
KeyArrow ==
    \E arg \in {"rotate", "left", "right"} :
        /\ Commit("key", arg, handleInput(Cur(<<>>), KeyCode(arg)))
        /\ UNCHANGED hist

\* document.onkeydown with the down arrow
KeyDown ==
    /\ hist.spawns < MaxSpawns
    /\ \E rnd \in Draws(PlayIndices, handleInput(Cur(SomeDraws), KeyCode("down"))) :
          LET g == handleInput(Cur(rnd), KeyCode("down"))
          IN  Commit("key", "down", g) /\ hist' = Counted(g)

\* an armed interval fires: gameTick
Tick ==
    /\ hist.spawns < MaxSpawns
    /\ timers # {}
    /\ \E rnd \in Draws(PlayIndices, gameTick(Cur(SomeDraws))) :
          LET g == gameTick(Cur(rnd))
          IN  Commit("tick", "", g) /\ hist' = Counted(g)

\* game.resize(width, height)
Resize ==
    /\ hist.resizes < MaxResizes
    /\ \E c \in PlayCanvases :
          /\ Commit("resize", "", resizeGame(Cur(<<>>), c[1], c[2]))
          /\ hist' = [hist EXCEPT !.resizes = @ + 1]

Next == KeySpace \/ KeyArrow \/ KeyDown \/ Tick \/ Resize

Spec == Init /\ [][Next]_vars

(***************************************************************************)
(* SpecLevel: a game on a canvas of 4 x 7 blocks in which Math.random      *)
(* gives the shape i every time, played far enough to reach level 1: four  *)
(* lines cleared by one piece, then one more line.                         *)
(***************************************************************************)
LevelCanvasWidth == 200
LevelCanvasHeight == 140

\* the value Math.random gives in the game: the shape i
LevelIndices == {0}

\* no piece is spawned once MaxLevelSpawns pieces were
MaxLevelSpawns == 8

InitLevel ==
    /\ Holds(NewGame(LevelCanvasWidth, LevelCanvasHeight, 0))
    /\ hist = [spawns |-> 0]

\* document.onkeydown with the space bar or the down arrow
LevelKey ==
    /\ hist.spawns < MaxLevelSpawns
    /\ \E arg \in {"space", "down"} :
          \E rnd \in Draws(LevelIndices, handleInput(Cur(SomeDraws), KeyCode(arg))) :
              With(handleInput(Cur(rnd), KeyCode(arg)), LAMBDA g :
                  Commit("key", arg, g) /\ hist' = Counted(g))

\* document.onkeydown with the up, left or right arrow
LevelArrow ==
    \E arg \in {"rotate", "left", "right"} :
        /\ Commit("key", arg, handleInput(Cur(<<>>), KeyCode(arg)))
        /\ UNCHANGED hist

\* an armed interval fires: gameTick
LevelTick ==
    /\ hist.spawns < MaxLevelSpawns
    /\ timers # {}
    /\ \E rnd \in Draws(LevelIndices, gameTick(Cur(SomeDraws))) :
          With(gameTick(Cur(rnd)), LAMBDA g :
              Commit("tick", "", g) /\ hist' = Counted(g))

NextLevel == LevelKey \/ LevelArrow \/ LevelTick

SpecLevel == InitLevel /\ [][NextLevel]_vars

(***************************************************************************)
(* SpecDrop: the first piece of a game on a canvas of 10 x 20 blocks,      *)
(* dropped by the ticks and the down arrow.                                *)
(***************************************************************************)
DropCanvasWidth == 320
DropCanvasHeight == 400

\* the run ends once MaxDropBakes pieces were baked
MaxDropBakes == 1

InitDrop ==
    /\ \E r \in RandomIndices : Holds(NewGame(DropCanvasWidth, DropCanvasHeight, r))
    /\ hist = [first |-> "null", downs |-> 0, bakes |-> 0]

\* what hist counts of a tick or a down arrow that left the Game as g
CountedDrop(g) ==
    [hist EXCEPT !.downs = IF hist.bakes = 0 /\ g.obs.valid THEN @ + 1 ELSE @,
                 !.bakes = @ + g.obs.bakes]

\* the space bar starts the game
DropStart ==
    /\ ~isRunning
    /\ \E rnd \in Draws(RandomIndices, handleInput(Cur(SomeDraws), KeyCode("space"))) :
          LET g == handleInput(Cur(rnd), KeyCode("space"))
          IN  Commit("key", "space", g) /\ hist' = [hist EXCEPT !.first = g.gamePiece.shape]

\* the down arrow
DropKeyDown ==
    /\ isRunning
    /\ hist.bakes < MaxDropBakes
    /\ \E rnd \in Draws(RandomIndices, handleInput(Cur(SomeDraws), KeyCode("down"))) :
          LET g == handleInput(Cur(rnd), KeyCode("down"))
          IN  Commit("key", "down", g) /\ hist' = CountedDrop(g)

\* an armed interval fires
DropTick ==
    /\ hist.bakes < MaxDropBakes
    /\ timers # {}
    /\ \E rnd \in Draws(RandomIndices, gameTick(Cur(SomeDraws))) :
          LET g == gameTick(Cur(rnd))
          IN  Commit("tick", "", g) /\ hist' = CountedDrop(g)

NextDrop == DropStart \/ DropKeyDown \/ DropTick

SpecDrop == InitDrop /\ [][NextDrop]_vars

(***************************************************************************)
(* SpecResize: calls of GameBoard.resize, one after the other, on boards   *)
(* of 0 to MaxResizeDim columns and rows that hold blocks.                 *)
(***************************************************************************)
\* the largest width and height of a resized board, in blocks
MaxResizeDim == 3

\* the most calls of resize in a row
MaxResizeCalls == 2

\* a w x h board whose cell (x, y) holds a block of a colour of its own when
\* x + y + phase is even, and 0 otherwise
PatternBoard(w, h, phase) ==
    [drawBoard(NewGameBoard(w, h)) EXCEPT !.gameBoard =
        [i \in 1..w |->
            [j \in 1..h |->
                IF (i + j + phase) % 2 = 0 THEN GameBlock((i - 1) + w * (j - 1))
                ELSE 0]]]

InitResize ==
    /\ \E w \in 0..MaxResizeDim : \E h \in 0..MaxResizeDim : \E phase \in 0..1 :
          Holds([NewGame((w + 6) * blockSize, h * blockSize, 0) EXCEPT
                    !.gameBoard = PatternBoard(w, h, phase)])
    /\ hist = [width |-> 0, height |-> 0, calls |-> 0]

\* a call of gameBoard.resize(newWidth, newHeight); a TypeError leaves the
\* board as the loops had it
CallResize ==
    /\ hist.calls < MaxResizeCalls
    /\ \E newWidth \in 0..MaxResizeDim : \E newHeight \in 0..MaxResizeDim :
          With(resizeBoard(gameBoard, newWidth, newHeight), LAMBDA r :
              /\ gameBoard' = r.board
              /\ last' = [Observed("resize", "", Cur(<<>>)) EXCEPT !.error = r.error]
              /\ hist' = [width |-> newWidth, height |-> newHeight,
                          calls |-> hist.calls + 1])
    /\ UNCHANGED <<boardWidth, boardHeight, gamePiece, nextPiece, gameStats,
                   difficulty, isRunning, isPaused, isGameOver, ticker, timers>>

NextResize == CallResize

SpecResize == InitResize /\ [][NextResize]_vars

(***************************************************************************)
(* SpecZero: the game on canvases that give a board of width or height 0,  *)
(* from new Game() on such a canvas or by a resize of a 4 x 4 game.        *)
(***************************************************************************)
\* canvases, in pixels, of boards of 0 x 4, 4 x 0 and 0 x 0 blocks
ZeroCanvases == {<<120, 80>>, <<200, 0>>, <<120, 0>>}

\* the values Math.random gives: the shapes i, l and o, of sizes 4, 3 and 2
ZeroIndices == {0, 2, 3}

\* no handler runs once MaxZeroSpawns pieces were spawned
MaxZeroSpawns == 3

\* the most calls of resize
MaxZeroResizes == 1

InitZero ==
    /\ \E c \in ZeroCanvases \cup {<<ProbeCanvasWidth, ProbeCanvasHeight>>} :
       \E r \in ZeroIndices : Holds(NewGame(c[1], c[2], r))
    /\ hist = [spawns |-> 0, resizes |-> 0]

\* document.onkeydown with the space bar, the down arrow or another arrow
ZeroKey ==
    /\ hist.spawns < MaxZeroSpawns
    /\ \E arg \in {"space", "down", "rotate", "left", "right"} :
       \E rnd \in Draws(ZeroIndices, handleInput(Cur(SomeDraws), KeyCode(arg))) :
          With(handleInput(Cur(rnd), KeyCode(arg)), LAMBDA g :
              Commit("key", arg, g) /\ hist' = Counted(g))

\* an armed interval fires: gameTick
ZeroTick ==
    /\ hist.spawns < MaxZeroSpawns
    /\ timers # {}
    /\ \E rnd \in Draws(ZeroIndices, gameTick(Cur(SomeDraws))) :
          With(gameTick(Cur(rnd)), LAMBDA g :
              Commit("tick", "", g) /\ hist' = Counted(g))

\* game.resize(width, height) to a canvas of a board of width or height 0
ZeroResize ==
    /\ hist.resizes < MaxZeroResizes
    /\ \E c \in ZeroCanvases :
          /\ Commit("resize", "", resizeGame(Cur(<<>>), c[1], c[2]))
          /\ hist' = [hist EXCEPT !.resizes = @ + 1]

NextZero == ZeroKey \/ ZeroTick \/ ZeroResize

SpecZero == InitZero /\ [][NextZero]_vars

(***************************************************************************)
(* What the claims speak of, stated from the masks and the grid rather     *)
(* than from isValidMove.                                                  *)
(***************************************************************************)
\* the mask of a piece's current rotation has cell (i, j): bit 15 - (4j + i)
MaskHas(p, i, j) ==
    (shapes[p.shape].blocks[p.rotation + 1] \div (2 ^ (15 - (4 * j + i)))) % 2 = 1

\* the cells of the board that piece p covers
CellsOf(p) ==
    {<<p.position.x + c[1], p.position.y + c[2]>> :
        c \in {d \in (0..3) \X (0..3) : MaskHas(p, d[1], d[2])}}

\* the piece p after an action, as a copy would be
Acted(p, action) ==
    CASE action = "rotate" -> [p EXCEPT !.rotation = (p.rotation + 1) % 4]
      [] action = "left" -> [p EXCEPT !.position.x = p.position.x - 1]
      [] action = "right" -> [p EXCEPT !.position.x = p.position.x + 1]
      [] action = "down" -> [p EXCEPT !.position.y = p.position.y + 1]

\* cell c is inside the grid of b and not occupied
FreeCell(b, c) ==
    /\ c[1] \in 0..(b.width - 1)
    /\ c[2] \in 0..(b.height - 1)
    /\ ~IsGameBlock(b.gameBoard[c[1] + 1][c[2] + 1])

\* the board has no occupied cell
EmptyBoard(b) ==
    \A i \in 1..Len(b.gameBoard) : \A j \in 1..Len(b.gameBoard[i]) :
        ~IsGameBlock(b.gameBoard[i][j])

\* the mask of p's rotation has an occupied cell in column i
ColumnUsed(p, i) == \E j \in 0..3 : MaskHas(p, i, j)

(***************************************************************************)
(* C1..C10.                                                                *)
(***************************************************************************)
\* C1: a call of isValidMove(piece, action), whatever it returns, leaves the
\* board grid and the passed piece's position, rotation and occupancy as they were
C1_IsValidMoveMutatesNothing ==
    [][last'.op = "isValidMove" =>
          /\ gameBoard' = gameBoard
          /\ gamePiece'.position = gamePiece.position
          /\ gamePiece'.rotation = gamePiece.rotation
          /\ gamePiece'.shapeArray = gamePiece.shapeArray]_vars

\* C1 witness: isValidMove has accepted a move of a piece on a board with a block
C1_Witness ==
    /\ last.op = "isValidMove"
    /\ last.arg = "left"
    /\ last.valid
    /\ ~EmptyBoard(gameBoard)

\* C2: isValidMove(piece, action) is true exactly when every occupied mask cell of
\* the acted copy lies inside the grid on a cell that is not occupied
C2_IsValidMoveIffAllCellsFree ==
    last.op = "isValidMove" =>
        (last.valid <=>
            \A c \in CellsOf(Acted(gamePiece, last.arg)) : FreeCell(gameBoard, c))

\* C2 witness: isValidMove has rejected a rotation whose cells are all inside the
\* grid, one of them on an occupied cell
C2_Witness ==
    /\ last.op = "isValidMove"
    /\ last.arg = "rotate"
    /\ ~last.valid
    /\ \A c \in CellsOf(Acted(gamePiece, "rotate")) :
          c[1] \in 0..(gameBoard.width - 1) /\ c[2] \in 0..(gameBoard.height - 1)

\* C8 as claimed: on a board with no occupied cell, for every kind and rotation,
\* the left input of a piece at x = 0 and the right input of a piece at
\* x = width - shapeSize are rejected
C8_Claimed ==
    [][(/\ last'.op = "key"
        /\ EmptyBoard(gameBoard)
        /\ \/ last'.arg = "left" /\ gamePiece.position.x = 0
           \/ /\ last'.arg = "right"
              /\ gamePiece.position.x = gameBoard.width - shapes[gamePiece.shape].size)
       => ~last'.valid /\ gamePiece'.position = gamePiece.position]_vars

\* C8 amended: on a board with no occupied cell, the left input of a piece at
\* x = 0 whose mask has an occupied cell in column 0, and the right input of a piece
\* at x = width - shapeSize whose mask has an occupied cell in column shapeSize - 1,
\* are rejected: isValidMove is false and the position stays
C8_WallRejectsOccupiedEdgeColumn ==
    [][(/\ last'.op = "key"
        /\ EmptyBoard(gameBoard)
        /\ \/ /\ last'.arg = "left"
              /\ gamePiece.position.x = 0
              /\ ColumnUsed(gamePiece, 0)
           \/ /\ last'.arg = "right"
              /\ gamePiece.position.x = gameBoard.width - shapes[gamePiece.shape].size
              /\ ColumnUsed(gamePiece, shapes[gamePiece.shape].size - 1))
       => ~last'.valid /\ gamePiece'.position = gamePiece.position]_vars

\* C8 witness: the right input of an l piece at x = width - 3, rotation 1, on a
\* board with no occupied cell, was rejected
C8_Witness ==
    /\ last.op = "key"
    /\ last.arg = "right"
    /\ ~last.valid
    /\ EmptyBoard(gameBoard)
    /\ gamePiece.shape = "l"
    /\ gamePiece.rotation = 1
    /\ gamePiece.position.x = gameBoard.width - shapes.l.size
    /\ \A c \in CellsOf(gamePiece) : FreeCell(gameBoard, c)

\* the board b with the rows of S deleted and as many empty rows put on top
DeleteRows(b, S) ==
    [i \in 1..b.width |->
        [j \in 1..b.height |->
            IF j <= Cardinality(S) THEN 0
            ELSE LET kept == {q \in 0..(b.height - 1) : q \notin S}
                     q == CHOOSE q \in kept :
                             Cardinality({k \in kept : k < q}) = j - 1 - Cardinality(S)
                 IN  b.gameBoard[i][q + 1]]]

\* C3: clearLines on 1 to 4 full rows, adjacent or not, leaves the board that
\* deleting those rows at once and putting as many empty rows on top gives
C3_ClearLinesIsDeleteAndPrepend ==
    last.op = "clearLines" =>
        /\ gameBoard.gameBoard = DeleteRows(hist.board, hist.lines)
        /\ gameBoard.width = hist.board.width
        /\ gameBoard.height = hist.board.height

\* C3 witness: the full rows 1 and 3, not adjacent, were cleared from a board
\* whose rows 0 and 2 held blocks
C3_Witness ==
    /\ last.op = "clearLines"
    /\ hist.lines = {1, 3}
    /\ IsGameBlock(hist.board.gameBoard[1][1])
    /\ IsGameBlock(hist.board.gameBoard[2][3])
    /\ ~IsGameBlock(hist.board.gameBoard[2][1])

\* C7: an award changes the difficulty d by 0 or +1; it becomes d+1 exactly when
\* the new score is above scorePerLevel[d] and d < 9; when it rises, the old
\* interval is cleared and one is armed with difficultyTimeouts[d+1]
C7_AwardRaisesDifficultyByOne ==
    [][last'.op = "addScore" =>
          /\ difficulty' \in {difficulty, difficulty + 1}
          /\ difficulty' = difficulty + 1 <=>
                (difficulty < 9 /\ gameStats'.score > scorePerLevel[difficulty + 1])
          /\ difficulty' = difficulty + 1 =>
                /\ ticker' # 0
                /\ timers' = {t \in timers : t.id # ticker} \cup
                             {[id |-> ticker',
                               interval |-> difficultyTimeouts[difficulty + 2]]}
                /\ last'.arms = 1
          /\ difficulty' = difficulty => timers' = timers /\ ticker' = ticker]_vars

\* C7 witness: an award has raised the difficulty to 9
C7_Witness ==
    /\ last.op = "addScore"
    /\ last.arms = 1
    /\ difficulty = 9
    /\ timers = {[id |-> ticker, interval |-> 175]}

\* C10: the rotation index stays in 0..3, and after four rotate() calls (or
\* eight) a recomputed occupancy and the rotation index are the original ones
C10_FourRotationsAreIdentity ==
    /\ gamePiece.rotation \in 0..3
    /\ (hist.rotations % 4 = 0 /\ last.op = "computeShape") =>
          /\ gamePiece.rotation = hist.start.rotation
          /\ gamePiece.shapeArray = hist.start.shapeArray

\* C10 witness: an l piece that started at rotation 2 was rotated four times and
\* had its occupancy recomputed
C10_Witness ==
    /\ hist.rotations = 4
    /\ last.op = "computeShape"
    /\ hist.start.shape = "l"
    /\ hist.start.rotation = 2
    /\ Len(gamePiece.shapeArray) = 4

\* C4 as claimed: no step, the reset after a game over included, lowers the score
C4_Claimed == [][gameStats'.score >= gameStats.score]_vars

\* C4 amended: a step in which reset() does not run never lowers the score, and
\* a step in which reset() runs leaves the score of a new GameStats, 0
C4_ScoreFallsOnlyByReset ==
    [][/\ last'.resets = 0 => gameStats'.score >= gameStats.score
       /\ last'.resets > 0 => gameStats'.score = 0]_vars

\* C4 witness: a bake has cleared a line and the award has raised the score
C4_Witness ==
    /\ last.bakes = 1
    /\ last.lines = 1
    /\ last.awards = 1
    /\ last.resets = 0
    /\ gameStats.score = pointsAwardedForLines[1]

\* C5: every spawn of a step whose validation failed has isGameOver set by
\* selectNextPiece; a step whose last spawn failed leaves it set; and isGameOver
\* becomes set only in a step in which a spawn failed its validation
C5_GameOverExactlyOnFailedSpawn ==
    [][/\ \A k \in 1..Len(last'.spawned) :
             last'.spawned[k].failed => last'.spawned[k].gameOver
       /\ (last'.spawned # <<>> /\ last'.spawned[Len(last'.spawned)].failed)
             => isGameOver'
       /\ (isGameOver' /\ ~isGameOver) =>
             \E k \in 1..Len(last'.spawned) : last'.spawned[k].failed]_vars

\* C5 witness: the spawn that followed a bake in a tick failed, and the game is over
C5_Witness ==
    /\ last.op = "tick"
    /\ last.bakes = 1
    /\ last.spawned = <<[failed |-> TRUE, gameOver |-> TRUE]>>
    /\ last.resets = 0
    /\ isGameOver

\* C6 as claimed: while isGameOver is set there is no active piece
C6_Claimed == isGameOver => gamePiece.shape = "null"

\* C9: the o piece spawned on the empty 10 x 20 board is at x = 4 and at the y
\* that counts its accepted down moves, at most 18, over an empty board until
\* its bake; the bake comes with the rejected down move after exactly 18
\* accepted ones, and it leaves blocks in (4,18), (5,18), (4,19) and (5,19) only
C9_OPieceDropsEighteenRows ==
    hist.first = "o" =>
        /\ hist.bakes = 0 =>
              /\ gamePiece.position = [x |-> 4, y |-> hist.downs]
              /\ hist.downs <= 18
              /\ last.op = "tick" \/ last.arg = "down" => last.valid
              /\ EmptyBoard(gameBoard)
        /\ hist.bakes = 1 =>
              /\ hist.downs = 18
              /\ \A i \in 0..9 : \A j \in 0..19 :
                    IsGameBlock(gameBoard.gameBoard[i + 1][j + 1])
                        <=> (i \in {4, 5} /\ j \in {18, 19})

\* C9 witness: the 19th down move of the o piece was rejected and the piece baked
C9_Witness ==
    /\ hist.first = "o"
    /\ hist.downs = 18
    /\ last.bakes = 1
    /\ ~last.valid
    /\ gameBoard.width = 10
    /\ gameBoard.height = 20
    /\ IsGameBlock(gameBoard.gameBoard[5][19])

\* this.gameBoard[x][y], Undefined where the array has no such column or cell
CellAt(b, x, y) ==
    IF x >= 0 /\ x < Len(b.gameBoard) THEN ArrayGet(b.gameBoard[x + 1], y)
    ELSE Undefined

\* C11: resize(newWidth, newHeight) leaves every cell inside both the old and
\* the new dimensions as it was (it discards none of them), and leaves no block
\* in a cell inside the new dimensions that was outside the old ones
C11_ResizeKeepsCellsInRange ==
    [][last'.op = "resize" =>
          \A x \in 0..(hist'.width - 1) : \A y \in 0..(hist'.height - 1) :
              IF x < gameBoard.width /\ y < gameBoard.height
              THEN CellAt(gameBoard', x, y) = CellAt(gameBoard, x, y)
              ELSE ~IsGameBlock(CellAt(gameBoard', x, y))]_vars

\* C11 witness: a 3 x 3 board with blocks was resized to 2 columns of 2 rows
\* and then to 3 columns of 3 rows, and (0,0) still holds its block
C11_Witness ==
    /\ last.op = "resize"
    /\ ~last.error
    /\ hist = [width |-> 3, height |-> 3, calls |-> 2]
    /\ Len(gameBoard.gameBoard) = 3
    /\ IsGameBlock(CellAt(gameBoard, 0, 0))
    /\ IsGameBlock(CellAt(gameBoard, 1, 1))
    /\ ~IsGameBlock(CellAt(gameBoard, 2, 2))

\* C12 as claimed: every resize with non-negative dimensions completes without
\* a runtime error and leaves exactly newWidth columns of exactly newHeight cells
C12_Claimed ==
    last.op = "resize" =>
        /\ ~last.error
        /\ Len(gameBoard.gameBoard) = hist.width
        /\ \A i \in 1..Len(gameBoard.gameBoard) :
              Len(gameBoard.gameBoard[i]) = hist.height

\* C13 as claimed: a key or a tick on a board of width or height 0 raises no
\* runtime error; every spawn it attempts fails and sets isGameOver, which the
\* step leaves set; and the grid holds no block afterwards
C13_Claimed ==
    [][((gameBoard.width = 0 \/ gameBoard.height = 0) /\ last'.op \in {"key", "tick"})
          => /\ ~last'.error
             /\ \A k \in 1..Len(last'.spawned) :
                   last'.spawned[k].failed /\ last'.spawned[k].gameOver
             /\ last'.spawned # <<>> => isGameOver'
             /\ \A x \in 0..3 : \A y \in 0..3 :
                   ~IsGameBlock(CellAt(gameBoard', x, y))]_vars

C15_Claimed == isGameOver => timers = {}

\* what a pause has to preserve: the grid, the piece in play with its position
\* and rotation, the next piece, the score and the difficulty
PlayState ==
    <<gameBoard.gameBoard, gamePiece.shape, gamePiece.position, gamePiece.rotation,
      nextPiece.shape, nextPiece.position, nextPiece.rotation,
      gameStats.score, difficulty>>

\* C16: the space bar on a running game that is not paused pauses it, leaves no
\* interval armed and changes nothing of the play; while the game is paused (and
\* not over) no interval is armed and no arrow key changes anything of the
\* play; the space bar then resumes it, arming the interval of the current
\* difficulty, and changes nothing of the play
C16_PauseFreezesPlay ==
    [][(isRunning /\ last'.op = "key") =>
          /\ (~isPaused /\ last'.arg = "space") =>
                 isPaused' /\ timers' = {} /\ PlayState' = PlayState
          /\ (isPaused /\ ~isGameOver /\ last'.arg # "space") =>
                 /\ timers = {} /\ timers' = {}
                 /\ isPaused' /\ ~isGameOver'
                 /\ PlayState' = PlayState
          /\ (isPaused /\ ~isGameOver /\ last'.arg = "space") =>
                 /\ timers = {}
                 /\ ~isPaused' /\ ~isGameOver'
                 /\ timers' = {[id |-> ticker', interval |-> difficultyTimeouts[difficulty + 1]]}
                 /\ PlayState' = PlayState]_vars

\* C16 witness: at level 1, a down arrow arrived in a paused game whose piece
\* could have moved down
C16_Witness ==
    /\ isPaused /\ ~isGameOver /\ difficulty = 1
    /\ last.op = "key" /\ last.arg = "down"
    /\ isValidMove(gameBoard, gamePiece, "down").result

\* C17: after a step in which reset() ran on a game whose board has room for a
\* spawn (4 columns, 3 rows), the score and the difficulty are 0, no cell is
\* occupied, the game is running, not paused and not over, a new piece is in
\* play at its spawn position, a next piece waits, and exactly one interval is
\* armed, that of difficulty 0
C17_ResetRestartsTheGame ==
    (last.resets > 0 /\ boardWidth >= 4 /\ boardHeight >= 3) =>
        /\ ~last.error
        /\ gameStats.score = 0 /\ difficulty = 0
        /\ gameBoard.width = boardWidth /\ gameBoard.height = boardHeight
        /\ Len(gameBoard.gameBoard) = boardWidth
        /\ \A i \in 1..boardWidth : gameBoard.gameBoard[i] = [j \in 1..boardHeight |-> 0]
        /\ ~isGameOver /\ ~isPaused /\ isRunning
        /\ gamePiece.shape \in Kinds /\ gamePiece.rotation = 0
        /\ gamePiece.position =
              [x |-> CeilHalf(boardWidth - shapes[gamePiece.shape].size), y |-> 0]
        /\ nextPiece.shape \in Kinds
        /\ ticker # 0
        /\ timers = {[id |-> ticker, interval |-> difficultyTimeouts[1]]}

\* C17 witness: the space bar on a game that was over reset it, on a board with
\* room for the spawn, and the spawn succeeded
C17_Witness ==
    /\ last.op = "key" /\ last.arg = "space" /\ last.resets = 1
    /\ boardWidth >= 4 /\ boardHeight >= 3
    /\ last.spawned = <<[failed |-> FALSE, gameOver |-> FALSE]>>
    /\ isRunning /\ gameStats.score = 0

\* C18: the difficulty is an integer of 0..9 in every state, and an award made
\* at difficulty 9 leaves it 9
C18_DifficultyStaysInRange ==
    /\ [](difficulty \in 0..9)
    /\ [][(difficulty = 9 /\ last'.awards > 0) => difficulty' = 9]_vars

\* C18 witness: an award made at difficulty 9 left it 9 and armed nothing
C18_Witness ==
    /\ last.op = "addScore" /\ last.awards = 1 /\ last.arms = 0
    /\ difficulty = 9
    /\ gameStats.score > scorePerLevel[9] + pointsAwardedForLines[4] * 10

\* the grid of b with the cells of piece p that are on the board occupied
BakedGrid(b, p) ==
    [i \in 1..b.width |->
        [j \in 1..b.height |->
            IF <<i - 1, j - 1>> \in CellsOf(p)
            THEN GameBlock(shapes[p.shape].color)
            ELSE b.gameBoard[i][j]]]

\* the rows of a grid of w x h cells that have no free cell
FullRowsOf(grid, w, h) ==
    {y \in 0..(h - 1) : \A i \in 1..w : IsGameBlock(grid[i][y + 1])}

\* the flags and the intervals of the game
FlagsAndTimers == <<isRunning, isPaused, isGameOver, ticker, timers>>

C20_RejectedInputChangesNothing ==
    [][(last'.op = "key" /\ last'.arg \in {"rotate", "left", "right"})
       => /\ ~last'.error
          /\ gameBoard'.gameBoard = gameBoard.gameBoard
          /\ gameStats' = gameStats
          /\ difficulty' = difficulty
          /\ nextPiece'.shape = nextPiece.shape
          /\ nextPiece'.rotation = nextPiece.rotation
          /\ nextPiece'.position = nextPiece.position
          /\ FlagsAndTimers' = FlagsAndTimers
          /\ gamePiece'.shape = gamePiece.shape
          /\ IF /\ ~isPaused
                /\ gamePiece # NullPiece
                /\ \A c \in CellsOf(Acted(gamePiece, last'.arg)) : FreeCell(gameBoard, c)
             THEN /\ last'.valid
                  /\ gamePiece'.position = Acted(gamePiece, last'.arg).position
                  /\ gamePiece'.rotation = Acted(gamePiece, last'.arg).rotation
                  /\ gamePiece'.shapeArray = ShapeArrays[gamePiece.shape][gamePiece'.rotation + 1]
             ELSE /\ ~last'.valid
                  /\ gamePiece'.position = gamePiece.position
                  /\ gamePiece'.rotation = gamePiece.rotation]_vars

\* C20 witness: a left key was rejected for a piece, itself on free cells, whose
\* cells one column to the left are all inside the grid, one of them occupied
C20_Witness ==
    /\ last.op = "key" /\ last.arg = "left" /\ ~last.valid
    /\ ~isPaused /\ gamePiece # NullPiece
    /\ \A c \in CellsOf(gamePiece) : FreeCell(gameBoard, c)
    /\ \A c \in CellsOf(Acted(gamePiece, "left")) :
          c[1] \in 0..(gameBoard.width - 1) /\ c[2] \in 0..(gameBoard.height - 1)
    /\ \E c \in CellsOf(Acted(gamePiece, "left")) : ~FreeCell(gameBoard, c)

(***************************************************************************)
(* SpecBake: a game in play on a canvas of 4 x 6 blocks whose bottom rows  *)
(* are full but for one column (a well), with a piece of any kind in play  *)
(* on free cells, at difficulty 0 or 1: the arrow keys and the ticks until *)
(* the piece is baked.                                                     *)
(***************************************************************************)
BakeCanvasWidth == 200
BakeCanvasHeight == 120

\* at most MaxWellRows bottom rows are full but for the well
MaxWellRows == 4

\* no tick and no down arrow is modelled once MaxBakes pieces were baked
MaxBakes == 1

\* the value Math.random gives for the pieces spawned after the bake
BakeIndices == {0}

\* difficulty and score of the game in play: a new game, and the game of
\* SpecLevel after four lines and one line
BakeLevels == {<<0, 0>>, <<1, 1240>>}

\* the drawn board of w x h cells whose k bottom rows are occupied except in
\* column c
WellBoard(w, h, c, k) ==
    [drawBoard(NewGameBoard(w, h)) EXCEPT !.gameBoard =
        [i \in 1..w |->
            [j \in 1..h |-> IF j > h - k /\ i - 1 # c THEN GameBlock(0) ELSE 0]]]

BakePieces ==
    {PieceAt(kind, rotation, x, y) :
        kind \in Kinds, rotation \in 0..3,
        x \in (-(4 \div 2))..(BoardWidthOf(BakeCanvasWidth) - 1),
        y \in 0..(BoardHeightOf(BakeCanvasHeight) - 1)}

InitBake ==
    /\ \E c \in 0..(BoardWidthOf(BakeCanvasWidth) - 1) : \E k \in 0..MaxWellRows :
       \E p \in BakePieces : \E lv \in BakeLevels :
          With(WellBoard(BoardWidthOf(BakeCanvasWidth), BoardHeightOf(BakeCanvasHeight),
                         c, k), LAMBDA b :
              /\ \A cell \in CellsOf(p) : FreeCell(b, cell)
              /\ Holds([RunningGame(BakeCanvasWidth, BakeCanvasHeight, b, p, 0) EXCEPT
                           !.difficulty = lv[1],
                           !.gameStats = [score |-> lv[2]],
                           !.timers = {[id |-> 1,
                                        interval |-> difficultyTimeouts[lv[1] + 1]]}]))
    /\ hist = [bakes |-> 0]

\* what hist counts of a handler that left the Game as g
CountedBake(g) == [hist EXCEPT !.bakes = @ + g.obs.bakes]

\* document.onkeydown with the down arrow
BakeKeyDown ==
    /\ hist.bakes < MaxBakes
    /\ \E rnd \in Draws(BakeIndices, handleInput(Cur(SomeDraws), KeyCode("down"))) :
          With(handleInput(Cur(rnd), KeyCode("down")), LAMBDA g :
              Commit("key", "down", g) /\ hist' = CountedBake(g))

\* document.onkeydown with the up, left or right arrow
BakeKeyArrow ==
    \E arg \in {"rotate", "left", "right"} :
        /\ Commit("key", arg, handleInput(Cur(<<>>), KeyCode(arg)))
        /\ UNCHANGED hist

\* an armed interval fires: gameTick
BakeTick ==
    /\ hist.bakes < MaxBakes
    /\ timers # {}
    /\ \E rnd \in Draws(BakeIndices, gameTick(Cur(SomeDraws))) :
          With(gameTick(Cur(rnd)), LAMBDA g :
              Commit("tick", "", g) /\ hist' = CountedBake(g))

NextBake == BakeKeyDown \/ BakeKeyArrow \/ BakeTick

SpecBake == InitBake /\ [][NextBake]_vars

\* C21: a tick or a down arrow that bakes a piece and clears n rows adds
\* pointsAwardedForLines[n - 1] * (d + 1) to the score, d being the difficulty
\* before the step, and n, the number of rows of the baked board with no free
\* cell, is at most 4; one that bakes and clears no row leaves the score and the
\* difficulty as they were
C21_BakeAwardsByTable ==
    [][(last'.op \in {"key", "tick"} /\ last'.bakes = 1 /\ last'.resets = 0) =>
          LET n == Cardinality(FullRowsOf(BakedGrid(gameBoard, gamePiece),
                                          gameBoard.width, gameBoard.height))
          IN  /\ n <= 4
              /\ last'.lines = n
              /\ IF n = 0
                 THEN gameStats' = gameStats /\ difficulty' = difficulty /\ last'.awards = 0
                 ELSE /\ last'.awards = 1
                      /\ gameStats'.score =
                            gameStats.score + <<40, 100, 300, 1200>>[n] * (difficulty + 1)]_vars

\* C21 witness: at difficulty 1 a bake has cleared three rows and added 600
C21_Witness ==
    /\ last.op = "tick" /\ last.bakes = 1 /\ last.lines = 3 /\ last.awards = 1
    /\ difficulty = 1
    /\ gameStats.score = 1240 + 600

C23_BakeReadsCurrentOccupancy ==
    /\ [](gamePiece # NullPiece =>
             gamePiece.shapeArray = ShapeArrayOf(shapes[gamePiece.shape].blocks[gamePiece.rotation + 1],
                                                 shapes[gamePiece.shape].color, 4, 4))
    /\ [][(/\ (last'.op = "tick" \/ (last'.op = "key" /\ last'.arg = "down" /\ ~isPaused))
            /\ gamePiece # NullPiece
            /\ \E c \in CellsOf(Acted(gamePiece, "down")) : ~FreeCell(gameBoard, c))
           => /\ ~last'.error
              /\ last'.bakes = 1
              /\ (last'.lines = 0 /\ last'.resets = 0) =>
                    gameBoard'.gameBoard = BakedGrid(gameBoard, gamePiece)]_vars

\* C23 witness: a tick has baked an i piece that had been rotated upright, which
\* fills a column of the board
C23_Witness ==
    /\ last.op = "tick" /\ last.bakes = 1 /\ last.lines = 0 /\ last.resets = 0
    /\ gameBoard.height = 4
    /\ \E i \in 1..gameBoard.width :
          gameBoard.gameBoard[i] = [j \in 1..4 |-> GameBlock(shapes.i.color)]

\* C24: after a step that spawned a piece, the piece in play has rotation 0,
\* y = 0 and the x that is the least integer with 2 * x >= width - size, width
\* being the width of the board it was spawned on and size the declared size of
\* its shape; when the step spawned once and did not reset, it is the piece that
\* was next
C24_SpawnIsCentredAtTop ==
    [][last'.spawns >= 1 =>
          /\ gamePiece'.shape \in Kinds
          /\ gamePiece'.rotation = 0
          /\ gamePiece'.position.y = 0
          /\ 2 * gamePiece'.position.x >= gameBoard'.width - shapes[gamePiece'.shape].size
          /\ 2 * (gamePiece'.position.x - 1) < gameBoard'.width - shapes[gamePiece'.shape].size
          /\ (last'.spawns = 1 /\ last'.resets = 0) => gamePiece'.shape = nextPiece.shape]_vars

\* C24 witness: an l piece, of size 3, was spawned on a board of width 4 at
\* x = 1, the ceiling of one half
C24_Witness ==
    /\ last.spawns = 1 /\ last.resets = 0
    /\ gameBoard.width = 4
    /\ gamePiece.shape = "l"
    /\ gamePiece.position = [x |-> 1, y |-> 0]
    /\ gamePiece.rotation = 0

(***************************************************************************)
(* SpecOverhang: a game on a canvas of 4 x 6 blocks in which Math.random   *)
(* gives the shapes l and s, played for three pieces.                *)
(***************************************************************************)
OverhangCanvasWidth == 200
OverhangCanvasHeight == 120

\* the values Math.random gives in the game: the shapes l and s
OverhangIndices == {2, 4}

\* no piece is spawned once MaxOverhangSpawns pieces were
MaxOverhangSpawns == 3

InitOverhang ==
    /\ \E r \in OverhangIndices :
          Holds(NewGame(OverhangCanvasWidth, OverhangCanvasHeight, r))
    /\ hist = [spawns |-> 0]

\* document.onkeydown with the space bar or the down arrow
OverhangKey ==
    /\ hist.spawns < MaxOverhangSpawns
    /\ \E arg \in {"space", "down"} :
          \E rnd \in Draws(OverhangIndices, handleInput(Cur(SomeDraws), KeyCode(arg))) :
              With(handleInput(Cur(rnd), KeyCode(arg)), LAMBDA g :
                  Commit("key", arg, g) /\ hist' = Counted(g))

\* document.onkeydown with the up, left or right arrow
OverhangArrow ==
    \E arg \in {"rotate", "left", "right"} :
        /\ Commit("key", arg, handleInput(Cur(<<>>), KeyCode(arg)))
        /\ UNCHANGED hist

\* an armed interval fires: gameTick
OverhangTick ==
    /\ hist.spawns < MaxOverhangSpawns
    /\ timers # {}
    /\ \E rnd \in Draws(OverhangIndices, gameTick(Cur(SomeDraws))) :
          With(gameTick(Cur(rnd)), LAMBDA g :
              Commit("tick", "", g) /\ hist' = Counted(g))

NextOverhang == OverhangKey \/ OverhangArrow \/ OverhangTick

SpecOverhang == InitOverhang /\ [][NextOverhang]_vars

\* C25 as claimed: while the game is running and not over, every occupied
\* cell of the piece in play is inside the grid on a cell that is not occupied
C25_Claimed ==
    (isRunning /\ ~isGameOver /\ gamePiece # NullPiece) =>
        \A c \in CellsOf(gamePiece) : FreeCell(gameBoard, c)

(***************************************************************************)
(* SpecShrink: a game on a canvas of 4 x 4 blocks in which Math.random     *)
(* gives the shape o every time, and a resize to a canvas of 2 x 4 or of   *)
(* 4 x 3 blocks.                                                           *)
(***************************************************************************)
ShrinkCanvasWidth == 200
ShrinkCanvasHeight == 80

\* the canvases of the resize, in pixels: boards of 2 x 4 and of 4 x 3 blocks
ShrunkCanvases ==
    {<<ShrinkCanvasWidth - 2 * blockSize, ShrinkCanvasHeight>>,
     <<ShrinkCanvasWidth, ShrinkCanvasHeight - blockSize>>}

\* the value Math.random gives in the game: the shape o
ShrinkIndices == {3}

\* no piece is spawned once MaxShrinkSpawns pieces were
MaxShrinkSpawns == 3

\* the most calls of resize
MaxShrinkResizes == 1

InitShrink ==
    /\ Holds(NewGame(ShrinkCanvasWidth, ShrinkCanvasHeight, 3))
    /\ hist = [spawns |-> 0, resizes |-> 0]

\* document.onkeydown with the space bar or the down arrow
ShrinkKey ==
    /\ hist.spawns < MaxShrinkSpawns
    /\ \E arg \in {"space", "down"} :
          \E rnd \in Draws(ShrinkIndices, handleInput(Cur(SomeDraws), KeyCode(arg))) :
              With(handleInput(Cur(rnd), KeyCode(arg)), LAMBDA g :
                  Commit("key", arg, g) /\ hist' = Counted(g))

\* document.onkeydown with the up, left or right arrow
ShrinkArrow ==
    \E arg \in {"rotate", "left", "right"} :
        /\ Commit("key", arg, handleInput(Cur(<<>>), KeyCode(arg)))
        /\ UNCHANGED hist

\* an armed interval fires: gameTick
ShrinkTick ==
    /\ hist.spawns < MaxShrinkSpawns
    /\ timers # {}
    /\ \E rnd \in Draws(ShrinkIndices, gameTick(Cur(SomeDraws))) :
          With(gameTick(Cur(rnd)), LAMBDA g :
              Commit("tick", "", g) /\ hist' = Counted(g))

\* game.resize(width, height) to a smaller canvas
ShrinkResize ==
    /\ hist.resizes < MaxShrinkResizes
    /\ \E c \in ShrunkCanvases :
          /\ Commit("resize", "", resizeGame(Cur(<<>>), c[1], c[2]))
          /\ hist' = [hist EXCEPT !.resizes = @ + 1]

NextShrink == ShrinkKey \/ ShrinkArrow \/ ShrinkTick \/ ShrinkResize

SpecShrink == InitShrink /\ [][NextShrink]_vars

\* C26 as claimed: after every handler that completed, a board of width
\* greater than 0 has no row in which every column holds a block.
C26_Claimed ==
    (gameBoard.width > 0 /\ ~last.error) =>
        FullRowsOf(gameBoard.gameBoard, gameBoard.width, gameBoard.height) = {}

\* the thresholds of scorePerLevel, as indices, that are below a score
ThresholdsBelow(score) == {k \in 1..Len(scorePerLevel) : score > scorePerLevel[k]}

\* C27: after every award the difficulty is the number of thresholds of
\* scorePerLevel the score is above, so that score <= scorePerLevel[d] when
\* d < 9; and no award takes the score above two thresholds at once
C27_DifficultyFollowsScore ==
    /\ [](last.op = "addScore" =>
            /\ difficulty = Cardinality(ThresholdsBelow(gameStats.score))
            /\ difficulty < 9 => gameStats.score <= scorePerLevel[difficulty + 1])
    /\ [][last'.op = "addScore" =>
            Cardinality(ThresholdsBelow(gameStats'.score) \
                        ThresholdsBelow(gameStats.score)) <= 1]_vars

\* C27 witness: an award took the score above the fourth threshold, from a
\* score that was above the third only
C27_Witness ==
    /\ last.op = "addScore"
    /\ last.arms = 1
    /\ difficulty = 4
    /\ gameStats.score > scorePerLevel[4]
    /\ gameStats.score <= scorePerLevel[5]

(***************************************************************************)
(* SpecFall: a game on a canvas of 4 x 6 blocks in which Math.random gives *)
(* the shapes l and s; hist.ticks is the parity of the number of calls of  *)
(* gameTick. FairFall is SpecFall in which an armed interval goes on       *)
(* firing: setInterval calls gameTick again and again until clearInterval. *)
(***************************************************************************)
FallCanvasWidth == 200
FallCanvasHeight == 120

\* the values Math.random gives in the game: the shapes l and s
FallIndices == {2, 4}

\* no piece is spawned once MaxFallSpawns pieces were
MaxFallSpawns == 3

InitFall ==
    /\ \E r \in FallIndices : Holds(NewGame(FallCanvasWidth, FallCanvasHeight, r))
    /\ hist = [spawns |-> 0, ticks |-> 0]

\* document.onkeydown with the space bar or the down arrow
FallKey ==
    /\ hist.spawns < MaxFallSpawns
    /\ \E arg \in {"space", "down"} :
          \E rnd \in Draws(FallIndices, handleInput(Cur(SomeDraws), KeyCode(arg))) :
              With(handleInput(Cur(rnd), KeyCode(arg)), LAMBDA g :
                  Commit("key", arg, g) /\ hist' = Counted(g))

\* document.onkeydown with the up, left or right arrow
FallArrow ==
    \E arg \in {"rotate", "left", "right"} :
        /\ Commit("key", arg, handleInput(Cur(<<>>), KeyCode(arg)))
        /\ UNCHANGED hist

\* an interval is armed and the run goes on: its callback can be called
TickArmed == hist.spawns < MaxFallSpawns /\ timers # {}

\* an armed interval fires: gameTick
FallTick ==
    /\ TickArmed
    /\ \E rnd \in Draws(FallIndices, gameTick(Cur(SomeDraws))) :
          With(gameTick(Cur(rnd)), LAMBDA g :
              Commit("tick", "", g) /\ hist' = [Counted(g) EXCEPT !.ticks = 1 - @])

NextFall == FallKey \/ FallArrow \/ FallTick

SpecFall == InitFall /\ [][NextFall]_vars

\* FallTick as hist shows it: the only step of NextFall that changes
\* hist.ticks, and one there is whenever TickArmed holds
TickFires ==
    /\ TickArmed
    /\ \E n \in 0..MaxFallSpawns : hist' = [spawns |-> n, ticks |-> 1 - hist.ticks]

\* weak fairness of the tick
FairFall == SpecFall /\ WF_hist(TickFires)

\* the n-th piece spawned is in play in a game that runs and is not paused
InPlay(n) ==
    /\ isRunning /\ ~isPaused /\ ~isGameOver
    /\ gamePiece # NullPiece
    /\ hist.spawns = n

\* C28: with the ticks firing, every piece in play in a running game that is
\* not paused is baked (the next piece is spawned) unless the game is paused or
\* stops first, whatever arrows are pressed meanwhile; a key that bakes nothing
\* never lowers the piece's y, and a tick raises y by one or bakes the piece
C28_EveryPieceIsBaked ==
    /\ \A n \in 1..(MaxFallSpawns - 1) :
          InPlay(n) ~> (isPaused \/ ~isRunning \/ (hist.spawns > n /\ last.bakes = 1))
    /\ [][(gamePiece # NullPiece /\ last'.op = "key" /\ last'.bakes = 0
                                 /\ last'.resets = 0) =>
             /\ gamePiece' # NullPiece
             /\ gamePiece'.position.y >= gamePiece.position.y]_vars
    /\ [][(gamePiece # NullPiece /\ last'.op = "tick") =>
             \/ /\ last'.bakes = 0
                /\ gamePiece' # NullPiece
                /\ gamePiece'.position.y = gamePiece.position.y + 1
             \/ /\ last'.bakes = 1
                /\ hist'.spawns = hist.spawns + 1]_vars

\* C28 witness: a tick has baked the second piece of the game, after a left
\* arrow, in a game that runs and is not paused
C28_Witness ==
    /\ last.op = "tick"
    /\ last.bakes = 1
    /\ hist.spawns = 3
    /\ isRunning /\ ~isPaused /\ ~isGameOver
    /\ \E j \in 1..gameBoard.height :
          /\ IsGameBlock(gameBoard.gameBoard[1][j])
          /\ IsGameBlock(gameBoard.gameBoard[gameBoard.width][j])

\* C29 as claimed: a bake on a board of width 0 reports no completed line and
\* leaves the score as it was.
C29_Claimed ==
    [][(last'.bakes > 0 /\ last'.resets = 0 /\ gameBoard.width = 0) =>
          /\ last'.lines = 0
          /\ last'.awards = 0
          /\ gameStats'.score = gameStats.score]_vars

====
